---- MODULE Spec2Model ----
(***************************************************************************)
(* Model of the QR decode pipeline of altafpasha/QR-Decoder-api:           *)
(*   QrController.decodeQr          (src/src/qr/qr.controller.ts)          *)
(*   QrService.decodeQrFromBuffer   (src/src/qr/qr.service.ts)             *)
(*   QrService.tryDecodeWithProcessing / decodeWithBinarizer               *)
(*   QrService.calculateOtsuThreshold                                      *)
(*                                                                         *)
(* The image codec (Jimp) and the symbol decoder (@zxing/library) are      *)
(* external: the bytes either load or do not, and the decoder's behaviour  *)
(* on each (transform, binarizer) pair is an input of the model.           *)
(***************************************************************************)
EXTENDS Integers, Sequences, FiniteSets, TLC

VARIABLES
    upload,      \* the request's file: "none", "corrupt" bytes or an "image"
    decoder,     \* what MultiFormatReader.decode does on each pair of this image
    pc,          \* position of the request in decodeQr / decodeQrFromBuffer
    sampled,     \* local of analyzeImageProperties: brightness class of the random sample
    heap,        \* pixel buffers alive in this invocation: index -> operations applied
    stageBuf,    \* processedImage of each ladder stage: index into heap (0 = none)
    debugBufs,   \* buffers made by saveDebugVersions
    evalLog,     \* pairs handed to the external decoder, in evaluation order
    attempts,    \* settled promise of decodeWithBinarizer per pair
    results,     \* the slots of the outer Promise.allSettled, one per stage
    svc,         \* how decodeQrFromBuffer ended: running, returned(value), thrown
    response,    \* what decodeQr answered
    repeated,    \* TRUE in the second submission of the same bytes
    prevSvc,     \* outcome of the service in the first submission
    prevResponse,\* answer to the first submission
    histogram,   \* input of calculateOtsuThreshold (non-empty bins only)
    otsu,        \* its result, -1 before the call
    authHeader,  \* request.headers.authorization, split at single spaces; <<>> if absent
    validToken,  \* configService.get('authToken')
    image,       \* the clone a stage works on: width, height, pixel data
    stageOut,    \* processedImage after the stage's transform
    luminanceArray, \* the array decodeWithBinarizer fills
    sourceCall,  \* a call on luminanceSource and what it gave
    inv,         \* concurrent invocations of decodeQrFromBuffer: the locals of each
    reader,      \* this.reader: the call that last set the reader's hints and readers
    readLog      \* <<invocation, invocation whose call set what it read from reader>>

vars == <<upload, decoder, pc, sampled, heap, stageBuf, debugBufs, evalLog,
          attempts, results, svc, response, repeated, prevSvc, prevResponse,
          histogram, otsu, authHeader, validToken,
          image, stageOut, luminanceArray, sourceCall, inv, reader, readLog>>

ladderVars == <<upload, decoder, pc, sampled, heap, stageBuf, debugBufs, evalLog,
                attempts, results, svc, response, repeated, prevSvc, prevResponse>>

otsuVars == <<histogram, otsu>>

guardVars == <<authHeader, validToken>>

\* What a decode request that passed the guard leaves alone.
restVars == <<otsuVars, guardVars, image, stageOut, luminanceArray, sourceCall,
              inv, reader, readLog>>

sharedVars == <<inv, reader, readLog>>

pixelVars == <<image, stageOut, luminanceArray, sourceCall>>

----------------------------------------------------------------------------
(* Bounds of the model *)

\* At most this many pairs on which the decoder does anything but NotFound.
MaxEvents == 1

\* Largest pixel count of one bin of a histogram.
MaxCount == 2

\* Largest number of non-empty bins of a histogram.
MaxBinsUsed == 3

\* Largest number of pixels of an image looked at pixel by pixel.
MaxArea == 4

----------------------------------------------------------------------------
(* The fixed ladder *)

\* qr.service.ts 32-38: the array handed to Promise.allSettled, in source order.
Methods == <<"original", "grayscale", "contrast", "threshold", "resize",
             "aggressive-threshold", "edge-enhance">>

\* qr.service.ts 264-265: the binarizers of one stage, in source order.
Binarizers == <<"hybrid", "global">>

Stages == 1..Len(Methods)

NumPairs == Len(Methods) * Len(Binarizers)

Pairs == 1..NumPairs

\* Position of (stage s, binarizer b) in the fixed order.
Pair(s, b) == (s - 1) * Len(Binarizers) + b

StageOf(p) == ((p - 1) \div Len(Binarizers)) + 1

----------------------------------------------------------------------------
(* JavaScript values and settled promises *)

Null == [isNull |-> TRUE, text |-> ""]

Str(t) == [isNull |-> FALSE, text |-> t]

\* JavaScript truthiness of a string | null: null and "" are falsy.
Truthy(v) == ~v.isNull /\ v.text # ""

Fulfilled(v) == [status |-> "fulfilled", value |-> v]

Rejected == [status |-> "rejected", value |-> Null]

Pending == [status |-> "pending", value |-> Null]

NotRun == [status |-> "none", value |-> Null]

----------------------------------------------------------------------------
(* The external decoder *)

Texts == {"", "a", "b"}

Found(t) == [kind |-> "Text", text |-> t]

NotFound == [kind |-> "NotFound", text |-> ""]

\* NotFoundException, ChecksumException, FormatException (qr.service.ts 341-349).
ExpectedKinds == {"NotFound", "Checksum", "Format"}

\* Everything the decoder can do on a pair other than NotFound; "Other" is any
\* error that is none of the three expected exceptions.
Events == {Found(t) : t \in Texts} \cup
          {[kind |-> k, text |-> ""] : k \in {"Checksum", "Format", "Other"}}

AllNotFound == [p \in Pairs |-> NotFound]

Decoders ==
    UNION { { [p \in Pairs |-> IF p \in S THEN f[p] ELSE NotFound] : f \in [S -> Events] }
            : S \in { T \in SUBSET Pairs : Cardinality(T) <= MaxEvents } }

----------------------------------------------------------------------------
(* Pixel buffers.  A buffer's content is the list of Jimp operations applied  *)
(* to the loaded pixels; the loaded image is heap[Original].                   *)

Original == 1

Pristine == <<>>

\* A clone that hands back the image it was asked to copy.
CloneShared(h, src) == [heap |-> h, ref |-> src]

\* Jimp clone(): a new buffer holding a copy of the content, and its index.
Clone(h, src) == [heap |-> Append(h, h[src]), ref |-> Len(h) + 1]

\* In-place Jimp operations (greyscale, contrast, scan, ...) on buffer b.
Mutate(h, b, ops) == [h EXCEPT ![b] = h[b] \o ops]

\* qr.service.ts 183-260: the operations of each method, applied to the clone.
TransformOps(method) ==
    CASE method = "original" -> <<>>
      [] method = "grayscale" -> <<"greyscale">>
      [] method = "contrast" -> <<"greyscale", "contrast(0.5)", "normalize">>
      [] method = "threshold" -> <<"greyscale", "scan(gray > otsu)">>
      [] method = "resize" -> <<"if minDim > 500: resize(500,500), greyscale, normalize">>
      [] method = "aggressive-threshold" -> <<"greyscale", "contrast(0.8)", "scan(gray > 100)">>
      [] method = "edge-enhance" -> <<"greyscale", "convolute(sharpen)", "normalize">>

----------------------------------------------------------------------------
(* QrService *)

\* A catch that absorbs NotFound and Format only and rethrows Checksum.
decodeWithBinarizerRethrow(outcome) ==
    IF outcome.kind = "Text" THEN Fulfilled(Str(outcome.text))
    ELSE IF outcome.kind \in {"NotFound", "Format"} THEN Fulfilled(Null)
    ELSE Rejected

\* qr.service.ts 283-354: the promise decodeWithBinarizer settles with, given
\* what reader.decode does.
decodeWithBinarizer(outcome) ==
    IF outcome.kind = "Text" THEN Fulfilled(Str(outcome.text))
    ELSE IF outcome.kind = "NotFound" THEN Fulfilled(Null)
    ELSE IF outcome.kind = "Checksum" THEN Fulfilled(Null)
    ELSE IF outcome.kind = "Format" THEN Fulfilled(Null)
    ELSE Rejected

\* A ladder that stops handing pairs to the decoder after a successful stage.
StagePairsUntilSuccess(s) ==
    IF \E p \in 1..Pair(s - 1, Len(Binarizers)) : decoder[p].kind = "Text"
    THEN <<>> ELSE <<Pair(s, 1), Pair(s, 2)>>

\* A stage that tries the hybrid binarizer only.
StagePairsHybridOnly(s) == <<Pair(s, 1)>>

\* qr.service.ts 263-266: the pairs one stage hands to the decoder, in order.
StagePairs(s) == <<Pair(s, 1), Pair(s, 2)>>

\* qr.service.ts 180-260: each stage clones the original and transforms the
\* clone in place; st.bufs lists the processedImage of the stages so far.
RECURSIVE ProcessStages(_, _)
ProcessStages(st, s) ==
    IF s > Len(Methods) THEN st
    ELSE LET c == Clone(st.heap, Original)
         IN ProcessStages([heap |-> Mutate(c.heap, c.ref, TransformOps(Methods[s])),
                           bufs |-> Append(st.bufs, c.ref)], s + 1)

\* qr.service.ts 31-39: the seven calls run one after the other, each up to its
\* await on line 263; the pairs evaluated, in order.
RECURSIVE LadderPairs(_)
LadderPairs(s) ==
    IF s > Len(Methods) THEN <<>> ELSE StagePairs(s) \o LadderPairs(s + 1)

InSeq(x, seq) == \E i \in 1..Len(seq) : seq[i] = x

\* qr.service.ts 268-275: first fulfilled, truthy result of the stage's binarizers.
RECURSIVE FirstTruthy(_, _)
FirstTruthy(rs, i) ==
    IF i > Len(rs) THEN Null
    ELSE IF rs[i].status = "fulfilled" /\ Truthy(rs[i].value) THEN rs[i].value
    ELSE FirstTruthy(rs, i + 1)

StageValue(att, s) == FirstTruthy(<<att[Pair(s, 1)], att[Pair(s, 2)]>>, 1)

\* A combinator that forgets the results handed to it.
PlaceLost(rs, s, r) == rs

\* Promise.allSettled stores a settled promise at the index of its input.
Place(rs, s, r) == [rs EXCEPT ![s] = r]

\* A combinator that resolves as soon as one input has settled.
AnySettled(rs) == \E s \in Stages : rs[s].status # "pending"

\* Promise.allSettled resolves when every input has settled.
AllSettled(rs) == \A s \in Stages : rs[s].status # "pending"

\* qr.service.ts 42-46: first fulfilled, truthy result in ladder order.
SelectResult(rs) == FirstTruthy(rs, 1)

Running == [kind |-> "running", value |-> Null]

Returned(v) == [kind |-> "returned", value |-> v]

Thrown == [kind |-> "thrown", value |-> Null]

\* A catch that logs and answers null instead of rethrowing.
ReadFailureSwallowed == Returned(Null)

\* qr.service.ts 55-58: the catch logs the error and rethrows it.
ReadFailure == Thrown

----------------------------------------------------------------------------
(* AuthGuard (src/unnamed/part_002) *)

\* configuration.ts 4: the token used when AUTH_TOKEN is not set.
DefaultToken == "your-secret-bearer-token-here"

\* A string is modelled by the fields authHeader.split(' ') yields: a non-empty
\* sequence of space-free strings, <<"">> for the empty string.  undefined is
\* Null, and JavaScript's !x is ~Truthy(x).
Undefined == Null

\* An extraction that does not look at the scheme.
extractTokenAnyScheme(h) == IF Len(h) >= 2 THEN Str(h[2]) ELSE Undefined

\* part_002 42-45: const [type, token] = authHeader.split(' ') ?? [];
\* return type === 'Bearer' ? token : undefined.
extractTokenFromHeader(h) ==
    LET type  == h[1]
        token == IF Len(h) >= 2 THEN Str(h[2]) ELSE Undefined
    IN IF type = "Bearer" THEN token ELSE Undefined

Granted == "granted"

\* part_002 17-40: TRUE (Granted) or the message of the UnauthorizedException.
canActivate(h, valid) ==
    IF h = <<>> \/ h = <<"">> THEN "Missing Authorization header"
    ELSE LET token == extractTokenFromHeader(h) IN
         IF ~Truthy(token) THEN "Invalid Authorization header format"
         ELSE IF token # Str(valid) THEN "Invalid bearer token"
         ELSE Granted

----------------------------------------------------------------------------
(* The shared MultiFormatReader (qr.service.ts 17).  The library's decode()   *)
(* sets the reader's hints and readers and then decodes with them;            *)
(* a call is <<invocation, pair>>.                                            *)

\* decodeWithState(): decodes with the hints and readers an earlier call left,
\* and sets them only if there are none.
ReaderDecodeWithState(rd, call) ==
    IF rd = <<"none", 0>> THEN [reader |-> call, readFrom |-> call]
    ELSE [reader |-> rd, readFrom |-> rd]

\* qr.service.ts 334: this.reader.decode(binaryBitmap).
ReaderDecode(rd, call) == [reader |-> call, readFrom |-> call]

\* qr.service.ts 263-266 and 283-354 for the 14 pairs of invocation i: the
\* calls follow one another without an await, so nothing runs in between.
RECURSIVE DecodeAll(_, _, _)
DecodeAll(st, i, p) ==
    IF p > NumPairs THEN st
    ELSE LET d == ReaderDecode(st.reader, <<i, p>>)
         IN DecodeAll([reader |-> d.reader,
                       log |-> st.log \cup {<<i, d.readFrom[1]>>}], i, p + 1)

\* What decodeQrFromBuffer returns for an image on its own.
Alone(img) ==
    LET att == [p \in Pairs |-> decodeWithBinarizer(img[p])]
        rs  == [s \in Stages |-> Fulfilled(StageValue(att, s))]
    IN IF Truthy(SelectResult(rs)) THEN Returned(SelectResult(rs)) ELSE Returned(Null)

----------------------------------------------------------------------------
(* QrController *)

NoResponse == [kind |-> "none", success |-> FALSE, text |-> Null, error |-> ""]

\* qr.controller.ts 48
BadRequest == [kind |-> "BadRequestException", success |-> FALSE, text |-> Null,
               error |-> "File is required"]

\* part_002 22, 28, 36
Unauthorized(msg) == [kind |-> "UnauthorizedException", success |-> FALSE, text |-> Null,
                      error |-> msg]

\* qr.controller.ts 60-68
SuccessBody(v) == [kind |-> "body", success |-> TRUE, text |-> v, error |-> ""]

\* qr.controller.ts 71-80
NotFoundBody == [kind |-> "body", success |-> FALSE, text |-> Null,
                 error |-> "No QR code found in the image"]

\* qr.controller.ts 84-93
FailedBody == [kind |-> "body", success |-> FALSE, text |-> Null,
               error |-> "Failed to process the image"]

\* A handler without the catch of lines 82-94: the service's error escapes.
AnswerUncaught(r) ==
    IF r.kind = "thrown"
    THEN [kind |-> "Error", success |-> FALSE, text |-> Null, error |-> ""]
    ELSE IF Truthy(r.value) THEN SuccessBody(r.value)
    ELSE NotFoundBody

\* qr.controller.ts 55-94: the answer to a request whose service call ended as r.
Answer(r) ==
    IF r.kind = "thrown" THEN FailedBody
    ELSE IF Truthy(r.value) THEN SuccessBody(r.value)
    ELSE NotFoundBody

----------------------------------------------------------------------------
(* The resize stage.  Its image is width, height and, for data, the list of   *)
(* Jimp operations applied to the loaded pixels, as in heap.                  *)

\* qr.service.ts 226 and 228
ResizeAbove == 500

ResizeTo == 500

Min(a, b) == IF a < b THEN a ELSE b

\* A test on the longer side.
LongSideAbove(img) == img.width > ResizeAbove \/ img.height > ResizeAbove

\* qr.service.ts 225-226: minDim > 500
ShortSideAbove(img) == Min(img.width, img.height) > ResizeAbove

\* qr.service.ts 223-232: Jimp's resize(w, h) gives a bitmap of exactly w x h.
ResizeStage(img) ==
    IF ShortSideAbove(img)
    THEN [width |-> ResizeTo, height |-> ResizeTo,
          data |-> img.data \o <<"resize(500,500)", "greyscale", "normalize">>]
    ELSE img

----------------------------------------------------------------------------
(* calculateOtsuThreshold *)

\* Number of bins scanned (qr.service.ts 129, 139).
Bins == 256

\* histogram[i], for a histogram stored by its non-empty bins.
Count(h, i) == IF i \in DOMAIN h THEN h[i] ELSE 0

\* The loops over i = 0..255 are folded by halving the range, left half first,
\* so that the bins are visited in ascending order as in the source.
RECURSIVE SumRange(_, _, _, _)
SumRange(h, lo, hi, weighted) ==
    IF lo = hi THEN (IF weighted THEN lo * Count(h, lo) ELSE Count(h, lo))
    ELSE LET mid == (lo + hi) \div 2
         IN SumRange(h, lo, mid, weighted) + SumRange(h, mid + 1, hi, weighted)

\* a/b < c/d for a, c >= 0 and b, d > 0, by whole parts and remainders so that
\* no product leaves the 32-bit range.
FracLess(a, b, c, d) ==
    \/ a \div b < c \div d
    \/ a \div b = c \div d /\ (a % b) * d < (c % d) * b

\* A comparison that lets a later bin with the same variance win.
ExceedsOrTies(num, den, maxNum, maxDen) == num * maxDen >= maxNum * den

\* A comparison of the squared mean distances alone.
ExceedsUnweighted(num, den, maxNum, maxDen) == num > maxNum

\* qr.service.ts 153: variance > maxVariance, for the fractions num/den and
\* maxNum/maxDen with positive denominators, when the two differ.
Exceeds(num, den, maxNum, maxDen) == FracLess(maxNum, maxDen, num, den)

\* The two variances are the same number.
Ties(num, den, maxNum, maxDen) ==
    ~FracLess(maxNum, maxDen, num, den) /\ ~FracLess(num, den, maxNum, maxDen)

\* qr.service.ts 140-156: one iteration of the scan at bin i.  The variance
\* wB*wF*(mB-mF)^2 is kept as the exact fraction num/den with
\*   num = (sumB*wF - (sum-sumB)*wB)^2,  den = wB*wF,
\* and compared exactly (Exceeds); stopped records the break of line 144.
\* The source computes mB, mF and the variance in double precision.  Two
\* splits whose variances are the same number are rounded apart in either
\* direction (for the bins 38: 2, 129: 1, 220: 2 the scan's variance at 129
\* comes out above the one at 38): up is the set of bins at which such a tie
\* compares as greater.  At an empty bin the operands wB, sumB, and with them
\* the rounded variance, are those of the bin before, so that tie is exact.
OtsuStep(h, total, sum, up, st, i) ==
    IF st.stopped THEN st
    ELSE LET wB == st.wB + Count(h, i) IN
         IF wB = 0 THEN [st EXCEPT !.wB = wB]
         ELSE LET wF == total - wB IN
              IF wF = 0 THEN [st EXCEPT !.wB = wB, !.stopped = TRUE]
              ELSE LET sumB == st.sumB + i * Count(h, i)
                       d    == sumB * wF - (sum - sumB) * wB
                       num  == d * d
                       den  == wB * wF
                       more == \/ Exceeds(num, den, st.maxNum, st.maxDen)
                               \/ /\ Ties(num, den, st.maxNum, st.maxDen)
                                  /\ Count(h, i) > 0
                                  /\ i \in up
                   IN [wB |-> wB, sumB |-> sumB, stopped |-> FALSE,
                       maxNum |-> IF more THEN num ELSE st.maxNum,
                       maxDen |-> IF more THEN den ELSE st.maxDen,
                       threshold |-> IF more THEN i ELSE st.threshold]

\* qr.service.ts 139-157
RECURSIVE OtsuScan(_, _, _, _, _, _, _)
OtsuScan(h, total, sum, up, st, lo, hi) ==
    IF lo = hi THEN OtsuStep(h, total, sum, up, st, lo)
    ELSE LET mid  == (lo + hi) \div 2
             left == OtsuScan(h, total, sum, up, st, lo, mid)
         IN IF left.stopped THEN left ELSE OtsuScan(h, total, sum, up, left, mid + 1, hi)

\* qr.service.ts 125-160
calculateOtsuThreshold(h, up) ==
    OtsuScan(h, SumRange(h, 0, Bins - 1, FALSE), SumRange(h, 0, Bins - 1, TRUE), up,
             [wB |-> 0, sumB |-> 0, stopped |-> FALSE,
              maxNum |-> 0, maxDen |-> 1, threshold |-> 0],
             0, Bins - 1).threshold

----------------------------------------------------------------------------
(* Pixels.  An image looked at pixel by pixel has for data its RGBA pixels,   *)
(* row-major as in Jimp's bitmap: pixel (x, y) is data[y * width + x + 1].    *)

Pixel(r, g, b, a) == [r |-> r, g |-> g, b |-> b, a |-> a]

PixelAt(img, x, y) == img.data[y * img.width + x + 1]

\* Jimp's greyscale() (qr.service.ts 201) gives every pixel one gray value in
\* 0..255, written to R, G and B, and keeps alpha; the value is Jimp's luma,
\* truncated.
JimpGrey(px) == (2126 * px.r + 7152 * px.g + 722 * px.b) \div 10000

Greyscale(img) ==
    [img EXCEPT !.data = [i \in DOMAIN img.data |->
        LET gray == JimpGrey(img.data[i])
        IN Pixel(gray, gray, gray, img.data[i].a)]]

\* qr.service.ts 204-208: histogram[gray]++ over bitmap.data[idx], by its
\* non-empty bins.
HistogramOf(img) ==
    [v \in {img.data[i].r : i \in DOMAIN img.data} |->
        Cardinality({i \in DOMAIN img.data : img.data[i].r = v})]

\* A cut that sends the cutoff itself to white.
ThresholdValueInclusive(gray, t) == IF gray >= t THEN 255 ELSE 0

\* qr.service.ts 216: const value = gray > threshold ? 255 : 0
ThresholdValue(gray, t) == IF gray > t THEN 255 ELSE 0

\* qr.service.ts 214-220: the second scan writes value to idx, idx+1, idx+2.
ApplyThresholdAt(img, t) ==
    [img EXCEPT !.data = [i \in DOMAIN img.data |->
        LET value == ThresholdValue(img.data[i].r, t)
        IN Pixel(value, value, value, img.data[i].a)]]

\* 0.299 R + 0.587 G + 0.114 B in thousandths.
Weighted(px) == 299 * px.r + 587 * px.g + 114 * px.b

\* The weights of the comment on line 299 (BT.709) in place of those used.
LuminancesBT709(px) == {(2126 * px.r + 7152 * px.g + 722 * px.b + 5000) \div 10000}

\* qr.service.ts 300: Math.round(0.299 * r + 0.587 * g + 0.114 * b).  The sum
\* is computed in double precision; where the exact sum ends in .5 the
\* computed one falls on either side of it, so both roundings are possible.
Luminances(px) ==
    IF Weighted(px) % 1000 = 500
    THEN {Weighted(px) \div 1000, Weighted(px) \div 1000 + 1}
    ELSE {(Weighted(px) + 500) \div 1000}

\* A store into a Uint8ClampedArray.
Clamped(v) == IF v < 0 THEN 0 ELSE IF v > 255 THEN 255 ELSE v

\* qr.service.ts 288-303: the loops over y and x fill luminanceArray at
\* lumIndex = 0, 1, ...; the arrays they can produce.
LuminanceArrays(img) ==
    LET n      == img.width * img.height
        px(k)  == PixelAt(img, (k - 1) % img.width, (k - 1) \div img.width)
        low(k) == CHOOSE v \in Luminances(px(k)) : \A u \in Luminances(px(k)) : v <= u
        either == {k \in 1..n : Cardinality(Luminances(px(k))) > 1}
    IN { [k \in 1..n |-> Clamped(IF k \in U THEN low(k) + 1 ELSE low(k))] :
           U \in SUBSET either }

----------------------------------------------------------------------------
(* luminanceSource (qr.service.ts 305-324) *)

\* A slice that starts at element y.
SliceAtElement(lum, width, y) == SubSeq(lum, y + 1, y + width)

\* qr.service.ts 307-308 and 312: luminanceArray.slice(start, end) with
\* start = y * width, end = start + width.
RowSlice(lum, width, y) == SubSeq(lum, y * width + 1, Min(y * width + width, Len(lum)))

\* TypedArray.set(src): src is copied to the front of row.
SetInto(row, src) == [i \in 1..Len(row) |-> IF i <= Len(src) THEN src[i] ELSE row[i]]

\* qr.service.ts 306-314: getRow(y, row); supplied is FALSE when row is omitted.
getRow(lum, width, y, supplied, row) ==
    LET reuse == supplied /\ ~(Len(row) < width)
        buf   == IF reuse THEN row ELSE [i \in 1..width |-> 0]
    IN [method |-> "getRow", y |-> y, row |-> row, supplied |-> supplied,
        result |-> SetInto(buf, RowSlice(lum, width, y)), reused |-> reuse,
        flag |-> FALSE, error |-> ""]

Answers(method, result, flag, error) ==
    [method |-> method, y |-> 0, row |-> <<>>, supplied |-> FALSE,
     result |-> result, reused |-> FALSE, flag |-> flag, error |-> error]

\* qr.service.ts 315-323: the other members of luminanceSource.
SourceMember(lum, width, height, method) ==
    CASE method = "getMatrix" -> Answers(method, lum, FALSE, "")
      [] method = "getWidth" -> Answers(method, <<width>>, FALSE, "")
      [] method = "getHeight" -> Answers(method, <<height>>, FALSE, "")
      [] method = "isCropSupported" -> Answers(method, <<>>, FALSE, "")
      [] method = "crop" -> Answers(method, <<>>, FALSE, "Crop not supported")
      [] method = "isRotateSupported" -> Answers(method, <<>>, FALSE, "")
      [] method = "rotateCounterClockwise" -> Answers(method, <<>>, FALSE, "Rotate not supported")
      [] method = "rotateCounterClockwise45" -> Answers(method, <<>>, FALSE, "Rotate not supported")

SourceMembers == {"getMatrix", "getWidth", "getHeight", "isCropSupported", "crop",
                  "isRotateSupported", "rotateCounterClockwise", "rotateCounterClockwise45"}

\* The bins at which a tie with an earlier split can occur: the non-empty bins
\* but the lowest (nothing to tie with) and the highest (the scan breaks).
RoundingBins(h) ==
    {i \in DOMAIN h : (\E j \in DOMAIN h : j < i) /\ (\E k \in DOMAIN h : k > i)}

----------------------------------------------------------------------------
(* Initial states *)

NoAttempts == [p \in Pairs |-> NotRun]

NoResults == [s \in Stages |-> Pending]

NoBufs == [s \in Stages |-> 0]

IdleOtsu == histogram = <<>> /\ otsu = -1

\* No stage is looked at pixel by pixel.
NoImage == [width |-> 0, height |-> 0, data |-> <<>>]

NoCall == [method |-> "none", y |-> 0, row |-> <<>>, supplied |-> FALSE,
           result |-> <<>>, reused |-> FALSE, flag |-> FALSE, error |-> ""]

IdlePixels ==
    /\ image = NoImage
    /\ stageOut = NoImage
    /\ luminanceArray = <<>>
    /\ sourceCall = NoCall

\* No invocations side by side.
Unset == <<"none", 0>>

IdleService == inv = <<>> /\ reader = Unset /\ readLog = {}

\* The guard has let the request through.
PassedGuard == authHeader = <<"Bearer", DefaultToken>> /\ validToken = DefaultToken

Fresh ==
    /\ pc = "request"
    /\ sampled = "none"
    /\ heap = <<>>
    /\ stageBuf = NoBufs
    /\ debugBufs = {}
    /\ evalLog = <<>>
    /\ attempts = NoAttempts
    /\ results = NoResults
    /\ svc = Running
    /\ response = NoResponse

Init ==
    /\ upload \in {"none", "corrupt", "image"}
    /\ decoder \in (IF upload = "image" THEN Decoders ELSE {AllNotFound})
    /\ Fresh
    /\ repeated = FALSE
    /\ prevSvc = Running
    /\ prevResponse = NoResponse
    /\ IdleOtsu
    /\ PassedGuard
    /\ IdlePixels
    /\ IdleService

----------------------------------------------------------------------------
(* Actions of a decode request *)

\* qr.controller.ts 45-56: reject a request without file, else call the service.
DecodeQr ==
    /\ pc = "request"
    /\ IF upload = "none"
       THEN /\ response' = BadRequest
            /\ pc' = "responded"
       ELSE /\ pc' = "read"
            /\ UNCHANGED response
    /\ UNCHANGED <<upload, decoder, sampled, heap, stageBuf, debugBufs, evalLog,
                   attempts, results, svc, repeated, prevSvc, prevResponse>>
    /\ UNCHANGED restVars

\* qr.service.ts 24 and 55-58: Jimp.read; a failure is logged and rethrown.
JimpRead ==
    /\ pc = "read"
    /\ IF upload = "corrupt"
       THEN /\ svc' = ReadFailure
            /\ pc' = "svcDone"
            /\ UNCHANGED heap
       ELSE /\ heap' = <<Pristine>>
            /\ pc' = "analyze"
            /\ UNCHANGED svc
    /\ UNCHANGED <<upload, decoder, sampled, stageBuf, debugBufs, evalLog,
                   attempts, results, response, repeated, prevSvc, prevResponse>>
    /\ UNCHANGED restVars

\* Average brightness classes of the random sample (qr.service.ts 89-93).
BrightnessClass(avg) ==
    IF avg < 64 THEN "dark" ELSE IF avg > 192 THEN "light" ELSE "normal"

SampleAverages == {0, 63, 64, 128, 192, 193, 255}

\* qr.service.ts 61-98: sample pixels at random positions, log; reads only.
AnalyzeImageProperties ==
    /\ pc = "analyze"
    /\ \E avg \in SampleAverages : sampled' = BrightnessClass(avg)
    /\ pc' = "analyzed"
    /\ UNCHANGED <<upload, decoder, heap, stageBuf, debugBufs, evalLog,
                   attempts, results, svc, response, repeated, prevSvc, prevResponse>>
    /\ UNCHANGED restVars

\* qr.service.ts 31-39 with 176-266: the seven tryDecodeWithProcessing calls run
\* in source order, each synchronously up to its await: clone, transform, and
\* both decodeWithBinarizer calls (which contain no await).  The locals of
\* analyzeImageProperties are gone.
StartLadder ==
    /\ pc = "analyzed"
    /\ sampled' = "none"
    /\ LET done == ProcessStages([heap |-> heap, bufs |-> <<>>], 1)
       IN /\ heap' = done.heap
          /\ stageBuf' = [s \in Stages |-> done.bufs[s]]
    /\ evalLog' = LadderPairs(1)
    /\ attempts' = [p \in Pairs |->
                      IF InSeq(p, LadderPairs(1)) THEN decodeWithBinarizer(decoder[p])
                      ELSE NotRun]
    /\ pc' = "ladder"
    /\ UNCHANGED <<upload, decoder, debugBufs, results, svc, response,
                   repeated, prevSvc, prevResponse>>
    /\ UNCHANGED restVars

\* qr.service.ts 268-275: a stage resumes after its inner allSettled and
\* fulfils its slot of the outer one; stages resume in any order.
ResumeStage(s) ==
    /\ pc = "ladder"
    /\ results[s].status = "pending"
    /\ results' = Place(results, s, Fulfilled(StageValue(attempts, s)))
    /\ UNCHANGED <<upload, decoder, pc, sampled, heap, stageBuf, debugBufs, evalLog,
                   attempts, svc, response, repeated, prevSvc, prevResponse>>
    /\ UNCHANGED restVars

\* qr.service.ts 41-48: the loop over the settled results.
Select ==
    /\ pc = "ladder"
    /\ AllSettled(results)
    /\ IF Truthy(SelectResult(results))
       THEN /\ svc' = Returned(SelectResult(results))
            /\ pc' = "svcDone"
       ELSE /\ pc' = "debug"
            /\ UNCHANGED svc
    /\ UNCHANGED <<upload, decoder, sampled, heap, stageBuf, debugBufs, evalLog,
                   attempts, results, response, repeated, prevSvc, prevResponse>>
    /\ UNCHANGED restVars

\* qr.service.ts 107-112: the four debug versions, each made from its own clone.
DebugVersions == <<<<>>, <<"greyscale">>, <<"greyscale", "contrast(0.5)", "normalize">>,
                   <<"greyscale", "scan(gray > 128)">>>>

RECURSIVE CloneDebug(_, _)
CloneDebug(st, i) ==
    IF i > Len(DebugVersions) THEN st
    ELSE LET c == Clone(st.heap, Original)
         IN CloneDebug([heap |-> Mutate(c.heap, c.ref, DebugVersions[i]),
                        bufs |-> Append(st.bufs, c.ref)], i + 1)

\* qr.service.ts 50-53 with 100-123: optional debug dump, then return null.
SaveDebugVersions ==
    /\ pc = "debug"
    /\ \E debugEnv \in BOOLEAN :
         IF debugEnv
         THEN LET done == CloneDebug([heap |-> heap, bufs |-> <<>>], 1)
              IN /\ heap' = done.heap
                 /\ debugBufs' = {done.bufs[i] : i \in 1..Len(done.bufs)}
         ELSE UNCHANGED <<heap, debugBufs>>
    /\ svc' = Returned(Null)
    /\ pc' = "svcDone"
    /\ UNCHANGED <<upload, decoder, sampled, stageBuf, evalLog,
                   attempts, results, response, repeated, prevSvc, prevResponse>>
    /\ UNCHANGED restVars

\* qr.controller.ts 56-94
Respond ==
    /\ pc = "svcDone"
    /\ response' = Answer(svc)
    /\ pc' = "responded"
    /\ UNCHANGED <<upload, decoder, sampled, heap, stageBuf, debugBufs, evalLog,
                   attempts, results, svc, repeated, prevSvc, prevResponse>>
    /\ UNCHANGED restVars

\* The same bytes are submitted a second time; nothing of the first invocation
\* survives in the service (qr.service.ts 19-59 keeps everything in locals).
Resubmit ==
    /\ pc = "responded"
    /\ ~repeated
    /\ repeated' = TRUE
    /\ prevSvc' = svc
    /\ prevResponse' = response
    /\ pc' = "request"
    /\ sampled' = "none"
    /\ heap' = <<>>
    /\ stageBuf' = NoBufs
    /\ debugBufs' = {}
    /\ evalLog' = <<>>
    /\ attempts' = NoAttempts
    /\ results' = NoResults
    /\ svc' = Running
    /\ response' = NoResponse
    /\ UNCHANGED <<upload, decoder>>
    /\ UNCHANGED restVars

Next ==
    \/ DecodeQr
    \/ JimpRead
    \/ AnalyzeImageProperties
    \/ StartLadder
    \/ \E s \in Stages : ResumeStage(s)
    \/ Select
    \/ SaveDebugVersions
    \/ Respond
    \/ Resubmit

Spec == Init /\ [][Next]_vars

\* The continuations of one invocation of decodeQrFromBuffer after an await.
\* The event loop runs every continuation that is queued; that a started
\* attempt settles is the fairness of ResumeStage.
Progress ==
    \/ JimpRead
    \/ AnalyzeImageProperties
    \/ \E s \in Stages : ResumeStage(s)
    \/ Select
    \/ SaveDebugVersions

\* The step StartLadder as it shows on pc: it is enabled exactly when
\* pc = "analyzed", and no other step takes pc from "analyzed" to "ladder".
LadderStarts == pc = "analyzed" /\ pc' = "ladder"

SpecLive == Init /\ [][Next]_vars /\ WF_vars(Progress) /\ WF_pc(LadderStarts)

----------------------------------------------------------------------------
(* calculateOtsuThreshold on its own: every histogram whose pixels lie in    *)
(* two bins a < b.                                                           *)

GrayLevels == 0..(Bins - 1)

\* Gray values at which the peaks are placed.
PeakLevels == {0, 1, 2, 3, 31, 63, 64, 65, 100, 101, 127, 128, 129, 191, 192, 193,
               200, 253, 254, 255}

TwoPeak(a, ca, b, cb) == [i \in {a, b} |-> IF i = a THEN ca ELSE cb]

TwoPeakHistograms ==
    { TwoPeak(a, ca, b, cb) : <<a, b>> \in { ab \in PeakLevels \X PeakLevels : ab[1] < ab[2] },
                              <<ca, cb>> \in (1..MaxCount) \X (1..MaxCount) }

InitOtsu ==
    /\ upload = "none"
    /\ decoder = AllNotFound
    /\ Fresh
    /\ repeated = FALSE
    /\ prevSvc = Running
    /\ prevResponse = NoResponse
    /\ histogram \in TwoPeakHistograms
    /\ otsu = -1
    /\ PassedGuard
    /\ IdlePixels
    /\ IdleService

\* qr.service.ts 210: the threshold stage calls calculateOtsuThreshold(histogram).
CalculateOtsu ==
    /\ otsu = -1
    /\ \E up \in SUBSET RoundingBins(histogram) :
          otsu' = calculateOtsuThreshold(histogram, up)
    /\ UNCHANGED histogram
    /\ UNCHANGED ladderVars
    /\ UNCHANGED guardVars
    /\ UNCHANGED sharedVars
    /\ UNCHANGED pixelVars

NextOtsu == CalculateOtsu

SpecOtsu == InitOtsu /\ [][NextOtsu]_vars

----------------------------------------------------------------------------
(* A request from the guard on: @UseGuards(AuthGuard) runs canActivate before  *)
(* the handler decodeQr.                                                       *)

\* Longest header, in fields.
MaxFields == 3

Fields == {"", "Bearer", "bearer", "Basic", "secret", DefaultToken}

Headers == {<<>>} \cup UNION { [1..n -> Fields] : n \in 1..MaxFields }

InitAuth ==
    /\ upload \in {"none", "corrupt", "image"}
    /\ decoder \in (IF upload = "image"
                    THEN {AllNotFound, [AllNotFound EXCEPT ![Pair(1, 1)] = Found("a")]}
                    ELSE {AllNotFound})
    /\ pc = "guard"
    /\ sampled = "none"
    /\ heap = <<>>
    /\ stageBuf = NoBufs
    /\ debugBufs = {}
    /\ evalLog = <<>>
    /\ attempts = NoAttempts
    /\ results = NoResults
    /\ svc = Running
    /\ response = NoResponse
    /\ repeated = FALSE
    /\ prevSvc = Running
    /\ prevResponse = NoResponse
    /\ IdleOtsu
    /\ authHeader \in Headers
    /\ validToken \in {"secret", DefaultToken}
    /\ IdlePixels
    /\ IdleService

\* qr.controller.ts 18 with part_002 17-40: the guard lets the request reach
\* the handler or throws.
CanActivate ==
    /\ pc = "guard"
    /\ IF canActivate(authHeader, validToken) = Granted
       THEN /\ pc' = "request"
            /\ UNCHANGED response
       ELSE /\ pc' = "unauthorized"
            /\ response' = Unauthorized(canActivate(authHeader, validToken))
    /\ UNCHANGED <<upload, decoder, sampled, heap, stageBuf, debugBufs, evalLog,
                   attempts, results, svc, repeated, prevSvc, prevResponse>>
    /\ UNCHANGED restVars

NextAuth ==
    \/ CanActivate
    \/ DecodeQr
    \/ JimpRead
    \/ AnalyzeImageProperties
    \/ StartLadder
    \/ \E s \in Stages : ResumeStage(s)
    \/ Select
    \/ SaveDebugVersions
    \/ Respond

SpecAuth == InitAuth /\ [][NextAuth]_vars

----------------------------------------------------------------------------
(* calculateOtsuThreshold on every histogram with few non-empty bins: none,   *)
(* one, two, and more, among them bins placed symmetrically.                  *)

OtsuLevels == {0, 1, 2, 38, 129, 220, 254, 255}

SparseHistograms ==
    UNION { [S -> 1..MaxCount] :
              S \in {T \in SUBSET OtsuLevels : Cardinality(T) <= MaxBinsUsed} }

InitOtsuAll ==
    /\ upload = "none"
    /\ decoder = AllNotFound
    /\ Fresh
    /\ repeated = FALSE
    /\ prevSvc = Running
    /\ prevResponse = NoResponse
    /\ histogram \in SparseHistograms
    /\ otsu = -1
    /\ PassedGuard
    /\ IdlePixels
    /\ IdleService

SpecOtsuAll == InitOtsuAll /\ [][NextOtsu]_vars

----------------------------------------------------------------------------
(* The threshold stage, the luminance extraction and the luminance source on  *)
(* small images: every shape of at most MaxArea pixels over a few colours,    *)
(* and single pixels over many.                                               *)

Palette == {Pixel(0, 0, 0, 255), Pixel(255, 255, 255, 255),
            Pixel(0, 36, 12, 255), Pixel(200, 100, 50, 0)}

ChannelLevels == {0, 1, 36, 127, 128, 200, 254, 255}

Shapes == {wh \in (1..MaxArea) \X (1..MaxArea) : wh[1] * wh[2] <= MaxArea}

SmallImages ==
    UNION { { [width |-> wh[1], height |-> wh[2], data |-> d] :
                d \in [1..(wh[1] * wh[2]) -> Palette] } : wh \in Shapes }
    \cup { [width |-> 1, height |-> 1, data |-> <<Pixel(r, g, b, 255)>>] :
              r \in ChannelLevels, g \in ChannelLevels, b \in ChannelLevels }

InitPixels ==
    /\ upload = "none"
    /\ decoder = AllNotFound
    /\ Fresh
    /\ repeated = FALSE
    /\ prevSvc = Running
    /\ prevResponse = NoResponse
    /\ IdleOtsu
    /\ PassedGuard
    /\ image \in SmallImages
    /\ stageOut = NoImage
    /\ luminanceArray = <<>>
    /\ sourceCall = NoCall
    /\ IdleService

\* qr.service.ts 199-221: tryDecodeWithProcessing(image, 'threshold') up to the
\* break.
ThresholdStage ==
    /\ stageOut = NoImage
    /\ luminanceArray = <<>>
    /\ LET grey == Greyscale(image)
       IN /\ histogram' = HistogramOf(grey)
          /\ \E up \in SUBSET RoundingBins(HistogramOf(grey)) :
                /\ otsu' = calculateOtsuThreshold(HistogramOf(grey), up)
                /\ stageOut' = ApplyThresholdAt(grey, otsu')
    /\ UNCHANGED <<image, luminanceArray, sourceCall>>
    /\ UNCHANGED ladderVars
    /\ UNCHANGED guardVars
    /\ UNCHANGED sharedVars

\* The processedImage handed to decodeWithBinarizer: the untouched clone of the
\* 'original' stage, or the output of the threshold stage.
Measured == IF stageOut = NoImage THEN image ELSE stageOut

\* qr.service.ts 288-303: decodeWithBinarizer fills luminanceArray.
ExtractLuminance ==
    /\ luminanceArray = <<>>
    /\ luminanceArray' \in LuminanceArrays(Measured)
    /\ UNCHANGED <<image, stageOut, sourceCall>>
    /\ UNCHANGED ladderVars
    /\ UNCHANGED otsuVars
    /\ UNCHANGED guardVars
    /\ UNCHANGED sharedVars

\* Row buffers a binarizer may pass to getRow, holding earlier content.
RowBuffers(width) == { [i \in 1..n |-> 7] : n \in 0..(width + 1) }

\* qr.service.ts 305-324: a binarizer calls a member of luminanceSource.
CallSource ==
    /\ luminanceArray # <<>>
    /\ sourceCall = NoCall
    /\ \/ \E y \in 0..(Measured.height - 1) :
             \/ sourceCall' = getRow(luminanceArray, Measured.width, y, FALSE, <<>>)
             \/ \E row \in RowBuffers(Measured.width) :
                   sourceCall' = getRow(luminanceArray, Measured.width, y, TRUE, row)
       \/ \E method \in SourceMembers :
             sourceCall' = SourceMember(luminanceArray, Measured.width,
                                        Measured.height, method)
    /\ UNCHANGED <<image, stageOut, luminanceArray>>
    /\ UNCHANGED ladderVars
    /\ UNCHANGED otsuVars
    /\ UNCHANGED guardVars
    /\ UNCHANGED sharedVars

NextPixels ==
    \/ ThresholdStage
    \/ ExtractLuminance
    \/ CallSource

SpecPixels == InitPixels /\ [][NextPixels]_vars

----------------------------------------------------------------------------
(* Two requests served side by side by the one QrService: their steps         *)
(* interleave at every await.                                                 *)

Invocations == {"first", "second"}

\* Images on which the decoder does something on the first or the last pair.
EdgeDecoders == {d \in Decoders : \A p \in Pairs : d[p] # NotFound => p \in {1, NumPairs}}

InitTwo ==
    /\ upload = "none"
    /\ decoder = AllNotFound
    /\ Fresh
    /\ repeated = FALSE
    /\ prevSvc = Running
    /\ prevResponse = NoResponse
    /\ IdleOtsu
    /\ PassedGuard
    /\ IdlePixels
    /\ \E imgs \in [Invocations -> EdgeDecoders] :
          inv = [i \in Invocations |->
                   [img |-> imgs[i], pc |-> "read", attempts |-> NoAttempts,
                    results |-> NoResults, svc |-> Running]]
    /\ reader = Unset
    /\ readLog = {}

\* qr.service.ts 24-28: Jimp.read and analyzeImageProperties of invocation i.
Load(i) ==
    /\ inv[i].pc = "read"
    /\ inv' = [inv EXCEPT ![i].pc = "analyzed"]
    /\ UNCHANGED <<reader, readLog>>
    /\ UNCHANGED <<ladderVars, otsuVars, guardVars, pixelVars>>

\* qr.service.ts 31-39: invocation i makes its 14 decodeWithBinarizer calls.
Ladder(i) ==
    /\ inv[i].pc = "analyzed"
    /\ LET done == DecodeAll([reader |-> reader, log |-> readLog], i, 1)
       IN /\ reader' = done.reader
          /\ readLog' = done.log
    /\ inv' = [inv EXCEPT ![i].pc = "ladder",
                          ![i].attempts = [p \in Pairs |-> decodeWithBinarizer(inv[i].img[p])]]
    /\ UNCHANGED <<ladderVars, otsuVars, guardVars, pixelVars>>

\* qr.service.ts 268-275: the stages of invocation i resume in the order in
\* which they reached their await.
Resume(i) ==
    /\ inv[i].pc = "ladder"
    /\ \E s \in Stages :
          /\ inv[i].results[s].status = "pending"
          /\ \A t \in Stages : t < s => inv[i].results[t].status # "pending"
          /\ inv' = [inv EXCEPT ![i].results =
                        Place(@, s, Fulfilled(StageValue(inv[i].attempts, s)))]
    /\ UNCHANGED <<reader, readLog>>
    /\ UNCHANGED <<ladderVars, otsuVars, guardVars, pixelVars>>

\* qr.service.ts 41-53: invocation i selects and returns.
Return(i) ==
    /\ inv[i].pc = "ladder"
    /\ AllSettled(inv[i].results)
    /\ inv' = [inv EXCEPT ![i].pc = "done",
                          ![i].svc = Returned(IF Truthy(SelectResult(inv[i].results))
                                              THEN SelectResult(inv[i].results)
                                              ELSE Null)]
    /\ UNCHANGED <<reader, readLog>>
    /\ UNCHANGED <<ladderVars, otsuVars, guardVars, pixelVars>>

NextTwo ==
    \E i \in Invocations :
        \/ Load(i)
        \/ Ladder(i)
        \/ Resume(i)
        \/ Return(i)

SpecTwo == InitTwo /\ [][NextTwo]_vars

----------------------------------------------------------------------------
(* The resize stage on its own, for images of every shape around 500.         *)

Sides == {1, 2, 400, 499, 500, 501, 502, 600, 1000, 4000}

InitResize ==
    /\ upload = "none"
    /\ decoder = AllNotFound
    /\ Fresh
    /\ repeated = FALSE
    /\ prevSvc = Running
    /\ prevResponse = NoResponse
    /\ IdleOtsu
    /\ PassedGuard
    /\ \E w \in Sides, h \in Sides :
          image = [width |-> w, height |-> h, data |-> Pristine]
    /\ stageOut = NoImage
    /\ luminanceArray = <<>>
    /\ sourceCall = NoCall
    /\ IdleService

\* qr.service.ts 180 and 223-232: tryDecodeWithProcessing(image, 'resize').
Resize ==
    /\ stageOut = NoImage
    /\ stageOut' = ResizeStage(image)
    /\ UNCHANGED <<image, luminanceArray, sourceCall>>
    /\ UNCHANGED ladderVars
    /\ UNCHANGED otsuVars
    /\ UNCHANGED guardVars
    /\ UNCHANGED sharedVars

NextResize == Resize

SpecResize == InitResize /\ [][NextResize]_vars

----------------------------------------------------------------------------
(* Properties of the decode ladder, checked under Spec *)

\* The service call of a request that carried a file has ended.
ServiceEnded == upload # "none" /\ pc \in {"svcDone", "responded"}

\* The ladder of this invocation has been started.
LadderStarted == pc \in {"ladder", "debug"} \/ (upload = "image" /\ ServiceEnded)

Evaluated == {evalLog[i] : i \in 1..Len(evalLog)}

FixedOrder == [i \in 1..NumPairs |-> i]

\* Pairs on which the decoder returns a text, and those with a non-empty text.
TextPairs == {p \in Pairs : decoder[p].kind = "Text"}

NonEmptyPairs == {p \in TextPairs : decoder[p].text # ""}

Earliest(S) == CHOOSE p \in S : \A q \in S : p <= q

\* C1: whatever the outcomes of the pairs and the order in which the stages
\* settle, the service returns the text of the earliest pair, in the fixed
\* order, on which the decoder returned a text.
C1_EarliestSuccessWins ==
    (upload = "image" /\ ServiceEnded /\ TextPairs # {})
        => svc = Returned(Str(decoder[Earliest(TextPairs)].text))

C3_UnexpectedErrorFails ==
    (ServiceEnded /\ \E p \in Evaluated : decoder[p].kind = "Other")
        => /\ svc = Thrown
           /\ pc = "responded" => response = FailedBody

\* C4: the service returns null, and the controller answers "No QR code found
\* in the image", only after all 14 pairs have been evaluated and every stage
\* has settled.
C4_NotFoundOnlyAfterAllPairs ==
    ((ServiceEnded /\ svc = Returned(Null)) \/ response = NotFoundBody)
        => /\ Evaluated = Pairs
           /\ \A p \in Pairs : attempts[p].status \in {"fulfilled", "rejected"}
           /\ \A s \in Stages : results[s].status = "fulfilled"

C4_Witness ==
    /\ pc = "responded"
    /\ response = NotFoundBody
    /\ svc = Returned(Null)
    /\ Evaluated = Pairs
    /\ \A p \in Pairs : decoder[p] = NotFound

\* What happened to the request, from the inputs alone.
OutcomeClass ==
    IF upload = "corrupt" THEN "not loaded"
    ELSE IF \E p \in Pairs : decoder[p].kind = "Other" THEN "processing failed"
    ELSE IF TextPairs = {} THEN "no symbol"
    ELSE "decoded"

\* C5: the answers to "no symbol", "processing failed" and "not loaded" differ
\* pairwise: no symbol is answered by the not-found body, a load failure by the
\* failure body, and a processing failure by neither of the two.
C5_ThreeOutcomesDistinct ==
    (pc = "responded" /\ upload # "none")
        => /\ OutcomeClass = "no symbol" => response = NotFoundBody
           /\ OutcomeClass = "not loaded" => response = FailedBody
           /\ OutcomeClass = "processing failed"
                 => (~response.success /\ response # NotFoundBody /\ response # FailedBody)

\* C6: when the bytes do not load, no attempt is ever started (no clone, no
\* pair evaluated, no stage result), the service throws, and the answer is the
\* failure body, which is not the not-found body.
C6_LoadFailureBeforeLadder ==
    upload = "corrupt"
        => /\ evalLog = <<>> /\ attempts = NoAttempts /\ results = NoResults
           /\ heap = <<>> /\ stageBuf = NoBufs
           /\ ServiceEnded => svc = Thrown
           /\ pc = "responded"
                 => (response = FailedBody /\ response # NotFoundBody
                     /\ response.error = "Failed to process the image")

C6_Witness ==
    /\ upload = "corrupt"
    /\ pc = "responded"
    /\ response = FailedBody
    /\ evalLog = <<>>

\* C7: NotFound, Checksum and Format on a pair make that pair's promise fulfil
\* with null; the pairs after it are still evaluated, and the service, once
\* the image has loaded, never throws.
C7_ExpectedFailuresAbsorbed ==
    /\ \A p \in Evaluated :
          decoder[p].kind \in ExpectedKinds
             => /\ attempts[p] = Fulfilled(Null)
                /\ \A q \in Pairs : q > p => q \in Evaluated
    /\ (upload = "image" /\ ServiceEnded) => svc.kind = "returned"

C7_Witness ==
    /\ pc = "svcDone"
    /\ decoder[Pair(1, 1)].kind = "Checksum"
    /\ attempts[Pair(1, 1)] = Fulfilled(Null)
    /\ Evaluated = Pairs
    /\ svc = Returned(Null)

\* C8: the second submission of the same bytes ends exactly as the first,
\* whatever the random samples and the order in which the stages settle.
C8_SameBytesSameResult ==
    (repeated /\ pc \in {"svcDone", "responded"})
        => /\ svc = prevSvc
           /\ pc = "responded" => response = prevResponse

C8_Witness ==
    /\ repeated
    /\ pc = "responded"
    /\ response = SuccessBody(Str("b"))
    /\ prevResponse = response
    /\ decoder[Pair(Len(Methods), 1)] = Found("b")

\* C10: from load to return the loaded image keeps its pixels; every stage and
\* every debug version has a buffer of its own, none of them the original.
C10_OriginalNeverMutated ==
    /\ heap # <<>> => heap[Original] = Pristine
    /\ \A s \in Stages : stageBuf[s] # 0 =>
          /\ stageBuf[s] # Original
          /\ stageBuf[s] \notin debugBufs
          /\ \A t \in Stages : t # s => stageBuf[t] # stageBuf[s]
    /\ Original \notin debugBufs
    /\ Cardinality(debugBufs) \in {0, Len(DebugVersions)}

C10_Witness ==
    /\ pc = "svcDone"
    /\ debugBufs # {}
    /\ heap[Original] = Pristine
    /\ \A s \in Stages : heap[stageBuf[s]] = TransformOps(Methods[s])

----------------------------------------------------------------------------
(* Properties of calculateOtsuThreshold, checked under SpecOtsu *)

LowPeak == CHOOSE a \in DOMAIN histogram : \A i \in DOMAIN histogram : a <= i

HighPeak == CHOOSE b \in DOMAIN histogram : \A i \in DOMAIN histogram : i <= b

\* C9 as stated: for pixels in two bins a < b the threshold lies strictly
\* between a and b.
C9_StrictlyBetween ==
    otsu # -1 => (LowPeak < otsu /\ otsu < HighPeak)

\* C9 amended: the threshold is the lower peak itself, a <= t < b with t = a.
C9_AtLowerPeak ==
    otsu # -1 => (otsu = LowPeak /\ LowPeak <= otsu /\ otsu < HighPeak)

C9_Witness ==
    /\ otsu = 100
    /\ histogram = TwoPeak(100, 2, 200, 1)

----------------------------------------------------------------------------
(* Properties of the answers, checked under Spec and SpecLive *)

\* C15: a text returned by the decoder on a pair, the empty string included,
\* makes the invocation succeed: the service returns null, and the controller
\* answers "No QR code found in the image", only if the decoder returned a
\* text on no pair.
C15_NullOnlyIfNoPairDecoded ==
    (upload = "image" /\ ServiceEnded)
        => /\ svc = Returned(Null) => TextPairs = {}
           /\ response = NotFoundBody => TextPairs = {}

\* The terminal outcomes of an invocation that svc stands for.
Outcomes ==
    {o \in {"Success", "NotFoundExhausted", "Failed"} :
        \/ o = "Success" /\ svc.kind = "returned" /\ ~svc.value.isNull
        \/ o = "NotFoundExhausted" /\ svc = Returned(Null)
        \/ o = "Failed" /\ svc = Thrown}

\* C16: when every started attempt settles, an invocation of
\* decodeQrFromBuffer ends; it ends with exactly one of Success,
\* NotFoundExhausted and Failed, has none of them before it ends, and once it
\* has ended no pair is evaluated, no attempt or stage settles and the outcome
\* does not change.
C16_OneTerminalOutcome ==
    /\ (pc = "read") ~> (pc = "svcDone")
    /\ [](IF ServiceEnded THEN Cardinality(Outcomes) = 1 ELSE Outcomes = {})
    /\ [][(ServiceEnded /\ pc' # "request")
             => UNCHANGED <<evalLog, attempts, results, svc, heap, stageBuf>>]_vars

C16_Witness ==
    /\ pc = "responded"
    /\ ~repeated
    /\ Outcomes = {"Success"}
    /\ decoder[Pair(2, 2)] = Found("b")
    /\ \A s \in Stages : results[s].status = "fulfilled"

\* C19: a request without a file is answered by BadRequestException and the
\* service is never called; a request with a file is always answered by a
\* body, also when the service throws, and in a body success is true exactly
\* when text is not null and there is no error field, and false exactly when
\* text is null and error is one of the two messages.
C19_AlwaysABody ==
    /\ upload = "none"
          => /\ pc \in {"request", "responded"}
             /\ svc = Running /\ heap = <<>> /\ evalLog = <<>>
             /\ pc = "responded" => response = BadRequest
    /\ (upload # "none" /\ pc = "responded")
          => /\ response.kind = "body"
             /\ response.success <=> (~response.text.isNull /\ response.error = "")
             /\ ~response.success
                   <=> /\ response.text.isNull
                       /\ response.error \in {"No QR code found in the image",
                                               "Failed to process the image"}

C19_Witness ==
    /\ upload = "corrupt"
    /\ pc = "responded"
    /\ svc = Thrown
    /\ response.kind = "body"
    /\ ~response.success

----------------------------------------------------------------------------
(* Properties of the guard, checked under SpecAuth *)

\* The handler decodeQr has been entered.
HandlerReached == pc \notin {"guard", "unauthorized"}

\* Nothing of the handler or the service has happened.
NoDecodeAttempt ==
    /\ svc = Running /\ heap = <<>> /\ evalLog = <<>>
    /\ attempts = NoAttempts /\ results = NoResults

\* The guard has thrown UnauthorizedException with this message.
RejectedWith(msg) ==
    pc # "guard" => (pc = "unauthorized" /\ response = Unauthorized(msg) /\ NoDecodeAttempt)

\* C11 as stated: the handler is reached only when the Authorization header
\* is exactly "Bearer <token>" with <token> the configured authToken.
C11_OnlyExactBearerHeader ==
    HandlerReached => authHeader = <<"Bearer", validToken>>

\* C11 amended: the handler is reached only when the header, split at single
\* spaces, has "Bearer" as its first field and the configured authToken as its
\* second; fields after the second are not looked at.  An absent or empty
\* header, a first field other than "Bearer", an absent or empty second field
\* and a second field other than the configured token each end in their
\* UnauthorizedException, and then nothing of the handler or service runs.
C11_OnlyBearerTokenPrefix ==
    /\ HandlerReached
          => (Len(authHeader) >= 2 /\ authHeader[1] = "Bearer"
              /\ authHeader[2] = validToken)
    /\ authHeader \in {<<>>, <<"">>} => RejectedWith("Missing Authorization header")
    /\ (authHeader \notin {<<>>, <<"">>} /\ authHeader[1] # "Bearer")
          => RejectedWith("Invalid Authorization header format")
    /\ (authHeader # <<>> /\ authHeader[1] = "Bearer"
          /\ (Len(authHeader) < 2 \/ authHeader[2] = ""))
          => RejectedWith("Invalid Authorization header format")
    /\ (Len(authHeader) >= 2 /\ authHeader[1] = "Bearer"
          /\ authHeader[2] \notin {"", validToken})
          => RejectedWith("Invalid bearer token")

C11_Witness ==
    /\ authHeader = <<"Bearer", "secret", "Basic">>
    /\ validToken = "secret"
    /\ pc = "responded"
    /\ response = SuccessBody(Str("a"))

----------------------------------------------------------------------------
(* Properties of the resize stage, checked under SpecResize *)

FitsWithin(img, side) == img.width <= side /\ img.height <= side

\* C12 as stated: the stage downscales exactly when max(width, height) > 500,
\* the result then fits within 500x500, and otherwise the original pixels are
\* passed through.
C12_DownscalesWhenLongSideAbove ==
    stageOut # NoImage
        => IF image.width > ResizeAbove \/ image.height > ResizeAbove
           THEN stageOut # image /\ FitsWithin(stageOut, ResizeTo)
           ELSE stageOut = image

\* C12 amended: the stage resizes exactly when min(width, height) > 500, and
\* the result is then exactly 500x500, greyscaled and normalized; otherwise,
\* so whenever max(width, height) <= 500 but also when only the longer side
\* exceeds 500, the original pixels and dimensions are passed through.
C12_DownscalesWhenShortSideAbove ==
    stageOut # NoImage
        => IF Min(image.width, image.height) > ResizeAbove
           THEN /\ stageOut.width = ResizeTo /\ stageOut.height = ResizeTo
                /\ FitsWithin(stageOut, ResizeTo)
                /\ stageOut.data = <<"resize(500,500)", "greyscale", "normalize">>
           ELSE /\ stageOut = image
                /\ stageOut.data = Pristine

C12_Witness ==
    /\ image = [width |-> 600, height |-> 400, data |-> Pristine]
    /\ stageOut = image

----------------------------------------------------------------------------
(* Properties of calculateOtsuThreshold, checked under SpecOtsuAll *)

RECURSIVE SumOver(_, _, _)
SumOver(h, S, weighted) ==
    IF S = {} THEN 0
    ELSE LET i == CHOOSE j \in S : TRUE
         IN (IF weighted THEN i * h[i] ELSE h[i]) + SumOver(h, S \ {i}, weighted)

\* Pixels at or below t, and above t.
Background(t) == {i \in DOMAIN histogram : i <= t}

Foreground(t) == {i \in DOMAIN histogram : i > t}

\* The thresholds with non-empty background and non-empty foreground.
Candidates == {t \in GrayLevels : Background(t) # {} /\ Foreground(t) # {}}

\* The between-class variance wB*wF*(mB-mF)^2 at t, as the fraction num/den.
Variance(t) ==
    LET wB   == SumOver(histogram, Background(t), FALSE)
        wF   == SumOver(histogram, Foreground(t), FALSE)
        sumB == SumOver(histogram, Background(t), TRUE)
        sumF == SumOver(histogram, Foreground(t), TRUE)
        d    == sumB * wF - sumF * wB
    IN [num |-> d * d, den |-> wB * wF]

\* The candidates that attain the largest variance of all candidates.
MaximalCandidates ==
    LET var == [t \in Candidates |-> Variance(t)]
        Less(t, u) == FracLess(var[t].num, var[t].den, var[u].num, var[u].den)
    IN IF DOMAIN var = {} THEN {}
       ELSE LET best == CHOOSE t \in DOMAIN var : \A u \in DOMAIN var : ~Less(t, u)
            IN {t \in DOMAIN var : ~Less(t, best)}

\* C13 as stated: the result is an integer in [0,255]; it is 0 when there is no
\* candidate (no or one non-empty bin, where no candidate has positive
\* variance), and otherwise it is the smallest candidate that attains the
\* largest between-class variance.
C13_SmallestMaximalCandidate ==
    otsu # -1
        => LET maximal == MaximalCandidates
           IN /\ otsu \in GrayLevels
              /\ maximal = {} => otsu = 0
              /\ maximal # {} => (otsu \in maximal /\ \A t \in maximal : otsu <= t)

\* C13 amended: the result is an integer in [0,255]; it is 0 when there is no
\* candidate, and otherwise it is a candidate that attains the largest
\* between-class variance, and the smallest one with its background.  So it
\* is the smallest maximal candidate when the maximal candidates all split the
\* pixels alike; between maximal candidates with different backgrounds the
\* rounding of the variances decides.
C13_MaximalCandidate ==
    otsu # -1
        => LET maximal == MaximalCandidates
           IN /\ otsu \in GrayLevels
              /\ maximal = {} => (otsu = 0 /\ Cardinality(DOMAIN histogram) <= 1)
              /\ maximal # {}
                    => /\ otsu \in maximal
                       /\ \A t \in maximal :
                             t < otsu => Background(t) # Background(otsu)

C13_Witness ==
    /\ histogram = [i \in {38, 129, 220} |-> IF i = 129 THEN 1 ELSE 2]
    /\ otsu = 129
    /\ 38 \in MaximalCandidates

----------------------------------------------------------------------------
(* Properties of the threshold stage, the luminance extraction and the        *)
(* luminance source, checked under SpecPixels                                 *)

\* The gray value of pixel i of the stage's image, and the gray values present.
GrayOf(i) == JimpGrey(image.data[i])

GrayValues == {GrayOf(i) : i \in DOMAIN image.data}

\* C14: after the threshold stage the image has its shape, every pixel has
\* R = G = B in {0, 255}, 255 exactly when its gray value is above the cutoff
\* that calculateOtsuThreshold gave for the histogram of the gray values of
\* this image, and its alpha; with two gray values the darker pixels are 0 and
\* the lighter 255; with one gray value the cutoff is 0; and the stage can be
\* run on every image, a single pixel included.  (Stated where the stage has
\* just run; the later steps leave image, histogram, otsu and stageOut alone.)
C14_BlackAndWhiteAboveOtsu ==
    /\ (stageOut = NoImage /\ luminanceArray = <<>>)
          => LET grey == Greyscale(image)
                 out  == ApplyThresholdAt(grey, calculateOtsuThreshold(HistogramOf(grey), {}))
             IN \A i \in DOMAIN image.data : out.data[i].r \in {0, 255}
    /\ (stageOut # NoImage /\ luminanceArray = <<>>)
          => /\ stageOut.width = image.width /\ stageOut.height = image.height
             /\ DOMAIN stageOut.data = DOMAIN image.data
             /\ histogram = [v \in GrayValues |->
                              Cardinality({i \in DOMAIN image.data : GrayOf(i) = v})]
             /\ \E up \in SUBSET RoundingBins(histogram) :
                   otsu = calculateOtsuThreshold(histogram, up)
             /\ \A i \in DOMAIN image.data :
                   LET out == stageOut.data[i]
                   IN /\ out.r = out.g /\ out.g = out.b
                      /\ out.r \in {0, 255}
                      /\ out.r = 255 <=> GrayOf(i) > otsu
                      /\ out.a = image.data[i].a
             /\ Cardinality(GrayValues) = 2
                   => \A i, j \in DOMAIN image.data :
                         GrayOf(i) < GrayOf(j)
                            => (stageOut.data[i].r = 0 /\ stageOut.data[j].r = 255)
             /\ Cardinality(GrayValues) = 1 => otsu = 0

C14_Witness ==
    /\ image = [width |-> 2, height |-> 1,
                data |-> <<Pixel(200, 100, 50, 0), Pixel(0, 36, 12, 255)>>]
    /\ otsu = 26
    /\ stageOut.data = <<Pixel(255, 255, 255, 0), Pixel(0, 0, 0, 255)>>

C20_SourceExposesMatrix ==
    sourceCall # NoCall
        => LET w == Measured.width
               c == sourceCall
           IN /\ c.method = "getRow"
                    => /\ c.y \in 0..(Measured.height - 1)
                       /\ c.error = ""
                       /\ Len(c.result) >= w
                       /\ \A x \in 0..(w - 1) :
                             c.result[x + 1] = luminanceArray[c.y * w + x + 1]
                       /\ c.reused <=> (c.supplied /\ Len(c.row) >= w)
                       /\ c.reused
                             => /\ Len(c.result) = Len(c.row)
                                /\ \A i \in (w + 1)..Len(c.row) : c.result[i] = c.row[i]
                       /\ ~c.reused => Len(c.result) = w
              /\ c.method = "getMatrix" => (c.result = luminanceArray /\ c.error = "")
              /\ c.method \in {"isCropSupported", "isRotateSupported"}
                    => (c.flag = FALSE /\ c.error = "")
              /\ c.method = "crop" => c.error = "Crop not supported"
              /\ c.method \in {"rotateCounterClockwise", "rotateCounterClockwise45"}
                    => c.error = "Rotate not supported"

C20_Witness ==
    /\ luminanceArray = <<0, 255, 255, 0>>
    /\ Measured.width = 2
    /\ sourceCall.method = "getRow"
    /\ sourceCall.y = 1
    /\ sourceCall.row = <<7, 7, 7>>
    /\ sourceCall.result = <<255, 0, 7>>
    /\ sourceCall.reused

----------------------------------------------------------------------------
(* Properties of invocations side by side, checked under SpecTwo *)

\* C17: each of two interleaved invocations on the one QrService returns what
\* it returns on its own, the shared reader is read only as set by the
\* reading invocation's own call, and until it has made its calls an
\* invocation has written nothing that is shared.
C17_InvocationsDoNotInterfere ==
    /\ \A i \in Invocations : inv[i].pc = "done" => inv[i].svc = Alone(inv[i].img)
    /\ \A rw \in readLog : rw[1] = rw[2]
    /\ \A i \in Invocations :
          inv[i].pc \in {"read", "analyzed"}
             => (reader[1] # i /\ \A rw \in readLog : rw[1] # i)

C17_Witness ==
    /\ inv["first"].pc = "done" /\ inv["second"].pc = "done"
    /\ inv["first"].img[1] = Found("a")
    /\ inv["second"].img[NumPairs] = Found("b")
    /\ inv["first"].svc = Returned(Str("a"))
    /\ inv["second"].svc = Returned(Str("b"))
    /\ reader[1] = "first"

====
